---------------------------- MODULE Spec2Model ----------------------------
(***************************************************************************)
(* Model of the SpiceDB / Kubernetes API proxy integration.                *)
(*                                                                         *)
(*  - the rule table built in NewSpiceDBKubeProxy and the bootstrap        *)
(*    schema (src/pkg/auth/auth.go, package proxy);                        *)
(*  - the per-request pipeline of the proxy as documented by the           *)
(*    sequence diagram (src/unnamed/part_004);                             *)
(*  - the HTTP handlers that feed it (src/unnamed/part_002).               *)
(*                                                                         *)
(* User names are sequences of their colon-separated segments, so          *)
(* "system:serviceaccount:ns1:bob" is <<"system","serviceaccount","ns1",   *)
(* "bob">> and "alice" is <<"alice">>.                                     *)
(***************************************************************************)
EXTENDS Integers, Sequences, FiniteSets, TLC

(***************************************************************************)
(* Bounds                                                                  *)
(***************************************************************************)
\* objects of one resource the backend store holds at most
MaxObjects == 3
\* events a watch connection receives before the model stops mutating
MaxEvents == 2
\* tokens of a user name given to a function evaluated on its own
MaxText == 2
\* segments, separated by ":", of a user name given to sanitizeUserName
MaxSegments == 4

(***************************************************************************)
(* Universe of the inputs                                                  *)
(***************************************************************************)
Names == {"a", "b", "c"}
PodNames == {"p"}
Alice == <<"alice">>
Bob == <<"bob">>
SA1 == <<"system", "serviceaccount", "ns1", "bob">>
SA2 == <<"system", "serviceaccount", "ns2", "bob">>
\* identities authenticated by the HTTP API
ApiUsers == {Alice, SA1, SA2}
\* the users, verbs and names of the requests to a proxy with deploy/rules.yaml
DeployUsers == {Alice, Bob}
DeployNames == {"a", "b"}
Verbs == {"create", "get", "list", "watch", "update", "delete"}
WriteVerbs == {"create", "update", "delete"}
(***************************************************************************)
(* Bootstrap schema: permission -> relations that grant it                 *)
(***************************************************************************)
SchemaRelations(rt, perm) ==
    CASE rt = "namespace" /\ perm \in {"admin", "edit"} -> {"creator"}
      [] rt = "namespace" /\ perm = "view" -> {"viewer", "creator"}
      [] rt = "namespace" /\ perm = "no_one_at_all" -> {}
      [] rt = "pod" /\ perm = "edit" -> {"creator"}
      [] rt = "pod" /\ perm = "view" -> {"viewer", "creator"}
      [] OTHER -> {perm}

(***************************************************************************)
(* Rule tables.  A template "rt:{{id}}#rel@st:{{sid}}" is the record of    *)
(* its five parts; id and sid name the placeholder.                        *)
(***************************************************************************)
Tpl(rt, id, rel, st, sid) == [rt |-> rt, id |-> id, rel |-> rel, st |-> st, sid |-> sid]

Rule(gv, res, verbs, checks, pre, post, creates, deletes) ==
    [GroupVersion |-> gv, Resource |-> res, Verbs |-> verbs, Checks |-> checks,
     PreFilters |-> pre, PostFilters |-> post,
     CreateRelationships |-> creates, DeleteRelationships |-> deletes]

NsCreateRule ==
    Rule("v1", "namespaces", {"create"}, <<>>, <<>>, <<>>,
         <<Tpl("namespace", "name", "creator", "user", "user.name")>>, <<>>)

NsGetRule ==
    Rule("v1", "namespaces", {"get"},
         <<Tpl("namespace", "name", "view", "user", "user.name")>>,
         <<>>, <<>>, <<>>, <<>>)

NsListRule ==
    Rule("v1", "namespaces", {"list"}, <<>>,
         <<Tpl("namespace", "$", "view", "user", "user.name")>>, <<>>, <<>>, <<>>)

PodCreateRule ==
    Rule("v1", "pods", {"create"}, <<>>, <<>>, <<>>,
         <<Tpl("pod", "name", "creator", "user", "user.name"),
           Tpl("pod", "name", "namespace", "namespace", "namespace")>>, <<>>)

PodReadRule ==
    Rule("v1", "pods", {"get", "list", "delete"},
         <<Tpl("pod", "name", "edit", "user", "user.name")>>,
         <<>>, <<>>, <<>>, <<>>)

\* ruleConfigs with one rule more than the source configures
ruleConfigsWithNsDelete ==
    {NsCreateRule, NsGetRule, NsListRule, PodCreateRule, PodReadRule,
     Rule("v1", "namespaces", {"delete"}, <<>>, <<>>, <<>>, <<>>, <<>>)}

\* ruleConfigs of NewSpiceDBKubeProxy
ruleConfigs ==
    {NsCreateRule, NsGetRule, NsListRule, PodCreateRule, PodReadRule}

\* the namespace rules TESTING.md documents for deploy/rules.yaml
deployRules ==
    {NsCreateRule, NsGetRule,
     Rule("v1", "namespaces", {"delete"}, <<>>, <<>>, <<>>, <<>>,
          <<Tpl("namespace", "name", "creator", "user", "user.name")>>),
     Rule("v1", "namespaces", {"list", "watch"}, <<>>,
          <<Tpl("namespace", "$", "view", "user", "user.name")>>, <<>>, <<>>, <<>>)}

\* a table whose list rule is of the PostFilter rule type
postFilterRules ==
    {NsCreateRule,
     Rule("v1", "namespaces", {"list"}, <<>>, <<>>,
          <<Tpl("namespace", "name", "view", "user", "user.name")>>, <<>>, <<>>)}

RuleTables == {ruleConfigs, postFilterRules}

\* a second rule for the create of a namespace: bob is made a viewer
NsShareRule ==
    Rule("v1", "namespaces", {"create"}, <<>>, <<>>, <<>>,
         <<Tpl("namespace", "name", "viewer", "user", "bob")>>, <<>>)

\* a second rule for the get of a namespace: the caller must be its admin
NsAdminGetRule ==
    Rule("v1", "namespaces", {"get"},
         <<Tpl("namespace", "name", "admin", "user", "user.name")>>,
         <<>>, <<>>, <<>>, <<>>)

\* a table in which two rules match the create and two the get of a namespace
overlapRules == {NsCreateRule, NsShareRule, NsGetRule, NsAdminGetRule}

\* the tables a reload switches between
ReloadTables == {deployRules, overlapRules}

(***************************************************************************)
(* State                                                                   *)
(***************************************************************************)
VARIABLES
    rules,        \* the matcher's rule table (opts.Matcher)
    matched,      \* rules the matcher returned for the request in flight
    kube,         \* backend resource store: sequence of objects, in list order
    rels,         \* relationships stored in the permission graph
    pc,           \* position of the request in flight
    req,          \* RequestMeta and user of the request in flight
    caller,       \* authenticated identity that issued the request
    txn,          \* state of the distributed transaction of the request
    kresp,        \* status of the Kubernetes response
    allowed,      \* resource ids returned by LookupResources
    filtered,     \* whether name filters were built for the forwarded request
    items,        \* items of the Kubernetes response
    resp,         \* response sent to the client
    relsBefore,   \* rels when the request arrived
    kubeBefore,   \* kube when the request arrived
    kubeCalls,    \* calls to the Kubernetes API made for the request
    rollbackRun,  \* whether Cleanup/Rollback ran for the request
    inconsistent, \* inconsistency flag of a compensated transaction
    graphErr,     \* a permission-graph call of the request ended in an error
    created,      \* [obj, by]: objects created through the proxy, and by whom
    wOpen,        \* a watch connection is open
    wUser,        \* user of the watch connection
    wRaw,         \* events the backend has sent on the watch
    wCursor,      \* events the response filterer has decided
    wFwd,         \* positions in wRaw of the events forwarded, in forwarding order
    wChecking,    \* a CheckPermission for event wCursor + 1 is awaited
    wGone,        \* the client of the watch disconnected or its context was canceled
    sanitizes,    \* the handlers pass sanitizeUserName(user.Username) (part_002)
    http,         \* HTTP request the API handler is serving
    hpc,          \* position of the API handler
    huser,        \* AuthenticationResult of the request
    hcalls,       \* steps the handler has invoked, in order
    hresp,        \* api.Response written by the handler
    fnArg,        \* arguments of the function being evaluated on its own
    fnOut         \* what the function returned

reqVars == <<pc, req, caller, txn, kresp, allowed, filtered, items, resp,
             relsBefore, kubeBefore, kubeCalls, rollbackRun, inconsistent,
             graphErr>>
watchVars == <<wOpen, wUser, wRaw, wCursor, wFwd, wChecking, wGone>>
apiVars == <<sanitizes, http, hpc, huser, hcalls, hresp>>
fnVars == <<fnArg, fnOut>>
vars == <<rules, matched, kube, rels, created, reqVars, watchVars, apiVars, fnVars>>

NoReq == [verb |-> "", gv |-> "", resource |-> "", namespace |-> "", name |-> "",
          user |-> <<>>]
NoResp == [status |-> 0, items |-> <<>>]
NoHttp == [endpoint |-> "", authorization |-> <<>>, cert |-> <<>>, remoteUser |-> <<>>,
           json |-> FALSE, namespace |-> "", user |-> <<>>, username |-> <<>>]
\* *UserInfo: <<>> is nil, <<u>> points to the UserInfo u
UserInfo(username, uid) == <<[Username |-> username, UID |-> uid]>>
NoAuth == [Authenticated |-> FALSE, User |-> <<>>, Error |-> ""]
\* result.User.Username of an authenticated result
UsernameOf(result) == IF result.User = <<>> THEN <<>> ELSE result.User[1].Username
NoArg == [fn |-> ""]
NoOut == <<>>
NoApiResp == [Success |-> FALSE, user |-> <<>>, namespaces |-> <<>>, Error |-> ""]

Range(s) == {s[i] : i \in 1..Len(s)}

(***************************************************************************)
(* Helpers                                                                 *)
(***************************************************************************)
\* strings.HasPrefix(userName, "system:serviceaccount:"), then parts[3]
sanitizeUserName(userName) ==
    IF /\ Len(userName) >= 3
       /\ userName[1] = "system"
       /\ userName[2] = "serviceaccount"
       /\ Len(userName) >= 4
    THEN <<userName[4]>>
    ELSE userName

\* a placeholder table that binds user.name to the object name
FieldUserFromName(ctx, ph) ==
    CASE ph = "name" -> <<ctx.name>>
      [] ph = "namespace" -> <<ctx.namespace>>
      [] ph = "user.name" -> <<ctx.name>>
      [] OTHER -> <<ph>>

\* value of a placeholder in the request context; ids are segment sequences
Field(ctx, ph) ==
    CASE ph = "name" -> <<ctx.name>>
      [] ph = "namespace" -> <<ctx.namespace>>
      [] ph = "user.name" -> ctx.user
      [] OTHER -> <<ph>>

\* a relationship template rendered against a request context
Render(t, ctx) ==
    [rt |-> t.rt, rid |-> Field(ctx, t.id), rel |-> t.rel,
     st |-> t.st, sid |-> Field(ctx, t.sid)]

\* a check that looks at the resource only, whoever the subject is
CheckPermissionAnySubject(graph, tuple) ==
    \E x \in graph : x.rt = tuple.rt /\ x.rid = tuple.rid

\* CheckPermission of SpiceDB on the stored relationships
CheckPermission(graph, tuple) ==
    \E r \in SchemaRelations(tuple.rt, tuple.rel) :
        [tuple EXCEPT !.rel = r] \in graph

\* LookupResources of SpiceDB: ids of the resources the subject can access
LookupResources(graph, t, ctx) ==
    {x.rid : x \in {y \in graph : /\ y.rt = t.rt
                                  /\ y.rel \in SchemaRelations(t.rt, t.rel)
                                  /\ y.st = t.st
                                  /\ y.sid = Field(ctx, t.sid)}}

(***************************************************************************)
(* Conditions of a rule.  An expression is eq(field, value), not(e),       *)
(* and(e, e) or or(e, e); any other text does not parse.                   *)
(***************************************************************************)
Eq(f, v) == [op |-> "eq", field |-> f, value |-> v]
Not(e) == [op |-> "not", arg |-> e]
And(a, b) == [op |-> "and", left |-> a, right |-> b]
Or(a, b) == [op |-> "or", left |-> a, right |-> b]
\* the expression compiles
RECURSIVE WellFormed(_)
WellFormed(e) ==
    CASE e.op = "eq" -> TRUE
      [] e.op = "not" -> WellFormed(e.arg)
      [] e.op \in {"and", "or"} -> WellFormed(e.left) /\ WellFormed(e.right)
      [] OTHER -> FALSE

\* the expression reads a field the context does not have
RECURSIVE RefersAbsent(_, _)
RefersAbsent(e, ctx) ==
    CASE e.op = "eq" -> e.field \notin DOMAIN ctx
      [] e.op = "not" -> RefersAbsent(e.arg, ctx)
      [] OTHER -> RefersAbsent(e.left, ctx) \/ RefersAbsent(e.right, ctx)

\* value of a compiled expression: "true", "false", or "absent" when a field
\* it reads is not in the context
RECURSIVE Eval(_, _)
Eval(e, ctx) ==
    CASE e.op = "eq" ->
            IF e.field \notin DOMAIN ctx THEN "absent"
            ELSE IF ctx[e.field] = e.value THEN "true" ELSE "false"
      [] e.op = "not" ->
            LET a == Eval(e.arg, ctx)
            IN CASE a = "true" -> "false" [] a = "false" -> "true" [] OTHER -> a
      [] e.op = "and" ->
            LET a == Eval(e.left, ctx)
                b == Eval(e.right, ctx)
            IN IF "absent" \in {a, b} THEN "absent"
               ELSE IF a = "true" /\ b = "true" THEN "true" ELSE "false"
      [] OTHER ->
            LET a == Eval(e.left, ctx)
                b == Eval(e.right, ctx)
            IN IF "absent" \in {a, b} THEN "absent"
               ELSE IF a = "true" \/ b = "true" THEN "true" ELSE "false"

\* an evaluator for which a missing field does not stop the rule
ConditionHoldsUnlessFalse(e, ctx) == Eval(e, ctx) # "false"

\* Evaluate CEL if conditions: the rule applies when the expression is true
ConditionHolds(e, ctx) == Eval(e, ctx) = "true"

\* the conditions of a rule; a rule without the field has none
IfOf(x) == IF "If" \in DOMAIN x THEN x.If ELSE <<>>

\* what the proxy holds when the matcher could not be built
MatcherError == {[error |-> "failed to create rule matcher"]}

\* rules.NewMapMatcher: the conditions are compiled once, at load time
NewMapMatcher(configs) ==
    IF \A x \in configs : \A i \in 1..Len(IfOf(x)) : WellFormed(IfOf(x)[i])
    THEN configs
    ELSE MatcherError

\* rules with conditions: a create for every name but c, a get, and a delete
\* whose condition reads a field of the object that no request carries
condRules ==
    {[If |-> <<Or(Eq("name", "a"),
                  And(Eq("verb", "create"), Not(Eq("name", "c"))))>>] @@ NsCreateRule,
     [If |-> <<Eq("resource", "namespaces")>>] @@ NsGetRule,
     [If |-> <<Not(Eq("object.labels.env", "prod"))>>] @@
         Rule("v1", "namespaces", {"delete"}, <<>>, <<>>, <<>>, <<>>,
              <<Tpl("namespace", "name", "creator", "user", "user.name")>>)}

\* a configuration with a condition that does not parse
malformedRules ==
    {NsGetRule, [If |-> <<And(Eq("name", "a"), [op |-> "parse error"])>>] @@ NsCreateRule}

\* the Matches entry of rule x covers the request (GVR + verb) and its
\* conditions are true of the request
Covers(x, r) ==
    /\ x.GroupVersion = r.gv
    /\ x.Resource = r.resource
    /\ r.verb \in x.Verbs
    /\ \A i \in 1..Len(IfOf(x)) : ConditionHolds(IfOf(x)[i], r)

\* a matcher that picks one winner among the rules that cover the request
MatchingRulesOneWinner(table, r) ==
    LET m == {x \in table : Covers(x, r)}
    IN IF m = {} THEN {} ELSE {CHOOSE x \in m : TRUE}

\* rules whose Matches entry covers the request
MatchingRules(table, r) == {x \in table : Covers(x, r)}

AllChecks(m) == UNION {Range(x.Checks) : x \in m}
AllPreFilters(m) == UNION {Range(x.PreFilters) : x \in m}
AllPostFilters(m) == UNION {Range(x.PostFilters) : x \in m}
AllCreates(m) == UNION {Range(x.CreateRelationships) : x \in m}
AllDeletes(m) == UNION {Range(x.DeleteRelationships) : x \in m}

Obj(r) == [resource |-> r.resource, namespace |-> r.namespace, name |-> r.name]
Exists(store, o) == \E i \in 1..Len(store) : store[i] = o
TypeOK ==
    /\ rules \in RuleTables \cup {deployRules, overlapRules, condRules, MatcherError}
    /\ matched \subseteq rules \/ matched \in {MatchingRules(t, req) : t \in ReloadTables}
    /\ pc \in {"idle", "match", "checks", "workflow", "preconditions",
               "forward", "refused", "commit", "committed", "uncommitted",
               "rollback", "failed", "compensate", "prefilter", "read",
               "postfilter", "done"}
    /\ wCursor \in 0..Len(wRaw)

\* the state after construction: the proxy holds one of the rule tables, the
\* backend and the graph are empty, nothing is in flight; args is what a
\* function evaluated on its own is applied to, flags says which handlers run
Init(tables, args, flags) ==
    /\ rules \in tables
    /\ fnArg \in args
    /\ sanitizes \in flags
    /\ matched = {}
    /\ fnOut = NoOut
    /\ kube = <<>>
    /\ rels = {}
    /\ pc = "idle"
    /\ req = NoReq
    /\ caller = <<>>
    /\ txn = "NONE"
    /\ kresp = 0
    /\ allowed = {}
    /\ filtered = FALSE
    /\ items = <<>>
    /\ resp = NoResp
    /\ relsBefore = {}
    /\ kubeBefore = <<>>
    /\ kubeCalls = 0
    /\ rollbackRun = FALSE
    /\ inconsistent = FALSE
    /\ graphErr = FALSE
    /\ created = {}
    /\ wOpen = FALSE
    /\ wUser = <<>>
    /\ wRaw = <<>>
    /\ wCursor = 0
    /\ wFwd = <<>>
    /\ wChecking = FALSE
    /\ wGone = FALSE
    /\ http = NoHttp
    /\ hpc = "idle"
    /\ huser = NoAuth
    /\ hcalls = <<>>
    /\ hresp = NoApiResp

(***************************************************************************)
(* Entry points                                                            *)
(***************************************************************************)
Arrive(u, by, verb, resource, ns, name) ==
    /\ pc = "idle"
    /\ rules # MatcherError
    /\ verb = "watch" => ~wOpen
    /\ verb = "create" =>
           Len(SelectSeq(kube, LAMBDA o : o.resource = resource)) < MaxObjects
    /\ (wOpen /\ verb \in WriteVerbs) => Len(wRaw) < MaxEvents
    /\ req' = [verb |-> verb, gv |-> "v1", resource |-> resource,
               namespace |-> ns, name |-> name, user |-> u]
    /\ caller' = by
    /\ pc' = "match"
    /\ relsBefore' = rels
    /\ kubeBefore' = kube
    /\ UNCHANGED <<fnVars, rules, matched, kube, rels, created, txn, kresp, allowed, filtered,
                   items, resp, kubeCalls, rollbackRun, inconsistent, graphErr, watchVars>>

\* a request made with the client of GetKubernetesClientForUser
ClientRequestOf(users, verbs, resources, names) ==
    \E u \in users, verb \in verbs, resource \in resources :
        \E ns \in (IF resource = "pods" THEN {"a"} ELSE {""}) :
            \E name \in (IF verb \in {"list", "watch"} THEN {""}
                         ELSE IF resource = "pods" THEN PodNames
                         ELSE IF resource = "secrets" THEN {"a"} ELSE names) :
                Arrive(u, u, verb, resource, ns, name) /\ UNCHANGED apiVars

\* kubectl through a proxy that runs deploy/rules.yaml
DeployClientRequest ==
    \/ ClientRequestOf(DeployUsers, {"create", "delete"}, {"namespaces"}, DeployNames)
    \/ ClientRequestOf({Alice}, {"get", "list", "watch", "update"}, {"namespaces"},
                       DeployNames)

\* POST /api/namespaces/create, after authentication and the RBAC check
ApiCreateNamespace ==
    \E user \in ApiUsers, namespace \in Names :
        /\ Arrive(sanitizeUserName(user), user, "create", "namespaces", "", namespace)
        /\ UNCHANGED apiVars

\* POST /api/namespaces/list, after authentication and the RBAC check
ApiListNamespaces ==
    \E user \in ApiUsers :
        /\ Arrive(sanitizeUserName(user), user, "list", "namespaces", "", "")
        /\ UNCHANGED apiVars

(***************************************************************************)
(* Rule matching and authorization checks                                  *)
(***************************************************************************)
Respond(status, list) ==
    /\ resp' = [status |-> status, items |-> list]
    /\ pc' = "done"

\* no rule covers the request: default deny
RuleNotMatched ==
    /\ pc = "match"
    /\ MatchingRules(rules, req) = {}
    /\ Respond(403, <<>>)
    /\ UNCHANGED <<fnVars, rules, matched, apiVars, kube, rels, created, req, caller, txn, kresp,
                   allowed, filtered, items, relsBefore, kubeBefore, kubeCalls,
                   rollbackRun, inconsistent, graphErr, watchVars>>

RuleMatched ==
    /\ pc = "match"
    /\ MatchingRules(rules, req) # {}
    /\ matched' = MatchingRules(rules, req)
    /\ pc' = "checks"
    /\ UNCHANGED <<fnVars, rules, apiVars, kube, rels, created, req, caller, txn, kresp,
                   allowed, filtered, items, resp, relsBefore, kubeBefore,
                   kubeCalls, rollbackRun, inconsistent, graphErr, watchVars>>

ChecksPass ==
    \A t \in AllChecks(matched) :
        CheckPermission(rels, Render(t, req))

\* CheckPermission Request ... alt Permission Denied: 403 Forbidden
PermissionDenied ==
    /\ pc = "checks"
    /\ ~ChecksPass
    /\ Respond(403, <<>>)
    /\ UNCHANGED <<fnVars, rules, matched, apiVars, kube, rels, created, req, caller, txn, kresp,
                   allowed, filtered, items, relsBefore, kubeBefore, kubeCalls,
                   rollbackRun, inconsistent, graphErr, watchVars>>

\* else Permission Granted: write operations start the workflow
PermissionGranted ==
    /\ pc = "checks"
    /\ ChecksPass
    /\ IF req.verb \in WriteVerbs
       THEN pc' = "workflow" /\ txn' = "PENDING"
       ELSE pc' = "prefilter" /\ txn' = txn
    /\ UNCHANGED <<fnVars, rules, matched, apiVars, kube, rels, created, req, caller, kresp,
                   allowed, filtered, items, resp, relsBefore, kubeBefore,
                   kubeCalls, rollbackRun, inconsistent, graphErr, watchVars>>

(***************************************************************************)
(* The backend store and the relationship update                           *)
(***************************************************************************)
\* what the Kubernetes API answers to a mutating request on store
KubeStatus(store, r) ==
    LET o == Obj(r) IN
    CASE r.verb = "create" /\ Exists(store, o) -> 409
      [] r.verb = "create" /\ r.resource = "pods"
            /\ ~Exists(store, [resource |-> "namespaces", namespace |-> "",
                               name |-> r.namespace]) -> 404
      [] r.verb = "create" -> 201
      [] ~Exists(store, o) -> 404
      [] OTHER -> 200

KubeApply(store, r) ==
    CASE r.verb = "create" -> Append(store, Obj(r))
      [] r.verb = "delete" -> SelectSeq(store, LAMBDA x : x # Obj(r))
      [] OTHER -> store

EventType(r) ==
    CASE r.verb = "create" -> "ADDED"
      [] r.verb = "delete" -> "DELETED"
      [] OTHER -> "MODIFIED"

\* the backend sends the change to the open watch
Notify(type, r) ==
    wRaw' = IF wOpen /\ r.resource = "namespaces"
            THEN Append(wRaw, [type |-> type, name |-> r.name])
            ELSE wRaw

RenderAll(ts, ctx) == {Render(t, ctx) : t \in ts}

\* the relationship update applied in the wrong order: deletes win
ApplyUpdateDropsCreates(graph, creates, deletes) == graph \ deletes

\* WriteRelationships (creates/deletes) applied to the graph
ApplyUpdate(graph, creates, deletes) == (graph \ deletes) \cup creates

\* objects created through the proxy, after a committed transaction
Track(set, r, by) ==
    CASE r.verb = "create" -> set \cup {[obj |-> Obj(r), by |-> by]}
      [] r.verb = "delete" -> {c \in set : c.obj # Obj(r)}
      [] OTHER -> set

(***************************************************************************)
(* Write operation: the distributed transaction                            *)
(***************************************************************************)
\* WriteRelationships (preconditions) ... Precondition Result
PreconditionResult ==
    /\ pc = "workflow"
    /\ txn' = "PRECONDITIONS_CHECKED"
    /\ pc' = "preconditions"
    /\ UNCHANGED <<fnVars, rules, matched, apiVars, kube, rels, created, req, caller, kresp,
                   allowed, filtered, items, resp, relsBefore, kubeBefore,
                   kubeCalls, rollbackRun, inconsistent, graphErr, watchVars>>

\* a workflow that forwards the request before it reads the precondition result
PreconditionsFailedAfterForward ==
    /\ pc = "preconditions"
    /\ kube' = IF KubeStatus(kube, req) \in {200, 201}
               THEN KubeApply(kube, req) ELSE kube
    /\ kubeCalls' = kubeCalls + 1
    /\ txn' = "PRECONDITION_FAILED"
    /\ Respond(400, <<>>)
    /\ UNCHANGED <<fnVars, rules, matched, apiVars, rels, created, req, caller, kresp, allowed,
                   filtered, items, relsBefore, kubeBefore, rollbackRun,
                   inconsistent, graphErr, watchVars>>

\* alt Preconditions Failed: Transaction Failed, 400 Bad Request
PreconditionsFailed ==
    /\ pc = "preconditions"
    /\ txn' = "PRECONDITION_FAILED"
    /\ Respond(400, <<>>)
    /\ UNCHANGED <<fnVars, rules, matched, apiVars, kube, rels, created, req, caller, kresp,
                   allowed, filtered, items, relsBefore, kubeBefore, kubeCalls,
                   rollbackRun, inconsistent, graphErr, watchVars>>

\* a workflow that writes the creates together with the preconditions
PreconditionsPassWritesCreates ==
    /\ pc = "preconditions"
    /\ rels' = ApplyUpdate(rels,
                           RenderAll(AllCreates(matched), req),
                           {})
    /\ pc' = "forward"
    /\ UNCHANGED <<fnVars, rules, matched, apiVars, kube, created, req, caller, txn, kresp,
                   allowed, filtered, items, resp, relsBefore, kubeBefore,
                   kubeCalls, rollbackRun, inconsistent, graphErr, watchVars>>

\* else Preconditions Pass
PreconditionsPass ==
    /\ pc = "preconditions"
    /\ pc' = "forward"
    /\ UNCHANGED <<fnVars, rules, matched, apiVars, kube, rels, created, req, caller, txn, kresp,
                   allowed, filtered, items, resp, relsBefore, kubeBefore,
                   kubeCalls, rollbackRun, inconsistent, graphErr, watchVars>>

\* Forward Request to Kubernetes, Kubernetes Response: the mutation is applied
KubeSuccess ==
    /\ pc = "forward"
    /\ KubeStatus(kube, req) \in {200, 201}
    /\ kube' = KubeApply(kube, req)
    /\ kresp' = KubeStatus(kube, req)
    /\ kubeCalls' = kubeCalls + 1
    /\ txn' = "BACKEND_APPLIED"
    /\ pc' = "commit"
    /\ Notify(EventType(req), req)
    /\ UNCHANGED <<fnVars, rules, matched, apiVars, rels, created, req, caller, allowed, filtered,
                   items, resp, relsBefore, kubeBefore, rollbackRun,
                   inconsistent, graphErr, wOpen, wUser, wCursor, wFwd, wChecking,
                   wGone>>

\* Forward Request to Kubernetes, Kubernetes Response: the mutation is refused
KubeFailure ==
    /\ pc = "forward"
    /\ \E status \in {KubeStatus(kube, req), 500} :
          /\ status \notin {200, 201}
          /\ kresp' = status
    /\ kubeCalls' = kubeCalls + 1
    /\ txn' = "BACKEND_APPLIED"
    /\ pc' = "refused"
    /\ UNCHANGED <<fnVars, rules, matched, apiVars, kube, rels, created, req, caller, allowed,
                   filtered, items, resp, relsBefore, kubeBefore, rollbackRun,
                   inconsistent, graphErr, watchVars>>

\* else K8s Failure
K8sFailure ==
    /\ pc = "refused"
    /\ txn' = "BACKEND_FAILED"
    /\ pc' = "rollback"
    /\ UNCHANGED <<fnVars, rules, matched, apiVars, kube, rels, created, req, caller, kresp,
                   allowed, filtered, items, resp, relsBefore, kubeBefore,
                   kubeCalls, rollbackRun, inconsistent, graphErr, watchVars>>

\* a workflow that asks the matcher again when it writes the relationships
WriteRelationshipsRereadsRules ==
    /\ pc = "commit"
    /\ rels' = ApplyUpdate(rels,
                           RenderAll(AllCreates(MatchingRules(rules, req)), req),
                           RenderAll(AllDeletes(MatchingRules(rules, req)), req))
    /\ txn' = "GRAPH_COMMITTED"
    /\ created' = Track(created, req, caller)
    /\ pc' = "committed"
    /\ UNCHANGED <<fnVars, rules, matched, apiVars, kube, req, caller, kresp, allowed, filtered,
                   items, resp, relsBefore, kubeBefore, kubeCalls, rollbackRun,
                   inconsistent, graphErr, watchVars>>

\* alt K8s Success: WriteRelationships (creates/deletes), Write Result
WriteRelationships ==
    /\ pc = "commit"
    /\ rels' = ApplyUpdate(rels,
                           RenderAll(AllCreates(matched), req),
                           RenderAll(AllDeletes(matched), req))
    /\ txn' = "GRAPH_COMMITTED"
    /\ created' = Track(created, req, caller)
    /\ pc' = "committed"
    /\ UNCHANGED <<fnVars, rules, matched, apiVars, kube, req, caller, kresp, allowed, filtered,
                   items, resp, relsBefore, kubeBefore, kubeCalls, rollbackRun,
                   inconsistent, graphErr, watchVars>>

\* Transaction Success: the backend's answer goes to the client
TransactionSuccess ==
    /\ pc = "committed"
    /\ txn' = "DONE"
    /\ Respond(kresp, <<>>)
    /\ UNCHANGED <<fnVars, rules, matched, apiVars, kube, rels, created, req, caller, kresp,
                   allowed, filtered, items, relsBefore, kubeBefore, kubeCalls,
                   rollbackRun, inconsistent, graphErr, watchVars>>

\* a rollback that removes the relationships the request would have created
CleanupRollbackRemovesCreates ==
    /\ pc = "rollback"
    /\ rels' = rels \ RenderAll(AllCreates(matched), req)
    /\ rollbackRun' = TRUE
    /\ txn' = "COMPENSATING"
    /\ pc' = "failed"
    /\ UNCHANGED <<fnVars, rules, matched, apiVars, kube, created, req, caller, kresp,
                   allowed, filtered, items, resp, relsBefore, kubeBefore,
                   kubeCalls, inconsistent, graphErr, watchVars>>

\* K8s Failure: Cleanup/Rollback
CleanupRollback ==
    /\ pc = "rollback"
    /\ rollbackRun' = TRUE
    /\ txn' = "COMPENSATING"
    /\ pc' = "failed"
    /\ UNCHANGED <<fnVars, rules, matched, apiVars, kube, rels, created, req, caller, kresp,
                   allowed, filtered, items, resp, relsBefore, kubeBefore,
                   kubeCalls, inconsistent, graphErr, watchVars>>

\* a workflow that goes back to the failed backend call after the rollback
TransactionFailedRetries ==
    /\ pc = "failed"
    /\ txn' = "BACKEND_FAILED"
    /\ pc' = "rollback"
    /\ UNCHANGED <<fnVars, rules, matched, apiVars, kube, rels, created, req, caller, kresp,
                   allowed, filtered, items, resp, relsBefore, kubeBefore,
                   kubeCalls, rollbackRun, inconsistent, graphErr, watchVars>>

\* K8s Failure: Transaction Failed
TransactionFailed ==
    /\ pc = "failed"
    /\ txn' = "COMPENSATED"
    /\ Respond(kresp, <<>>)
    /\ UNCHANGED <<fnVars, rules, matched, apiVars, kube, rels, created, req, caller, kresp,
                   allowed, filtered, items, relsBefore, kubeBefore, kubeCalls,
                   rollbackRun, inconsistent, graphErr, watchVars>>


\* the relationship commit fails after the backend mutation succeeded
CommitFailed ==
    /\ pc = "commit"
    /\ txn' = "BACKEND_FAILED"
    /\ pc' = "uncommitted"
    /\ UNCHANGED <<fnVars, rules, matched, apiVars, kube, rels, created, req, caller, kresp,
                   allowed, filtered, items, resp, relsBefore, kubeBefore,
                   kubeCalls, rollbackRun, inconsistent, graphErr, watchVars>>

\* the failed commit is followed by compensation
Compensate ==
    /\ pc = "uncommitted"
    /\ txn' = "COMPENSATING"
    /\ pc' = "compensate"
    /\ UNCHANGED <<fnVars, rules, matched, apiVars, kube, rels, created, req, caller, kresp,
                   allowed, filtered, items, resp, relsBefore, kubeBefore,
                   kubeCalls, rollbackRun, inconsistent, graphErr, watchVars>>

\* COMPENSATING: the backend mutation is reversed
CompensationDone ==
    /\ pc = "compensate"
    /\ req.verb = "create"
    /\ kube' = SelectSeq(kube, LAMBDA x : x # Obj(req))
    /\ Notify("DELETED", req)
    /\ kubeCalls' = kubeCalls + 1
    /\ txn' = "COMPENSATED"
    /\ Respond(500, <<>>)
    /\ UNCHANGED <<fnVars, rules, matched, apiVars, rels, created, req, caller, kresp, allowed,
                   filtered, items, relsBefore, kubeBefore, rollbackRun,
                   inconsistent, graphErr, wOpen, wUser, wCursor, wFwd, wChecking,
                   wGone>>

\* COMPENSATING: the reversal is not possible, the inconsistency is flagged
CompensationImpossible ==
    /\ pc = "compensate"
    /\ inconsistent' = TRUE
    /\ txn' = "COMPENSATED"
    /\ Respond(500, <<>>)
    /\ UNCHANGED <<fnVars, rules, matched, apiVars, kube, rels, created, req, caller, kresp,
                   allowed, filtered, items, relsBefore, kubeBefore, kubeCalls,
                   rollbackRun, graphErr, watchVars>>

(***************************************************************************)
(* Read operation: pre-filter, forward, post-filter                        *)
(***************************************************************************)
HasPreFilter ==
    /\ req.verb \in {"list", "watch"}
    /\ AllPreFilters(matched) # {}

\* List/Watch with PreFilter: LookupResources, build name/namespace filters
PreFilter ==
    /\ pc = "prefilter"
    /\ HasPreFilter
    /\ allowed' = UNION {LookupResources(rels, t, req) :
                            t \in AllPreFilters(matched)}
    /\ filtered' = TRUE
    /\ pc' = "read"
    /\ UNCHANGED <<fnVars, rules, matched, apiVars, kube, rels, created, req, caller, txn, kresp,
                   items, resp, relsBefore, kubeBefore, kubeCalls, rollbackRun,
                   inconsistent, graphErr, watchVars>>

NoPreFilter ==
    /\ pc = "prefilter"
    /\ ~HasPreFilter
    /\ pc' = "read"
    /\ UNCHANGED <<fnVars, rules, matched, apiVars, kube, rels, created, req, caller, txn, kresp,
                   allowed, filtered, items, resp, relsBefore, kubeBefore,
                   kubeCalls, rollbackRun, inconsistent, graphErr, watchVars>>

\* a filter that keeps every object of the resource
SelectIgnoringFilter(store, r, on, ids) ==
    SelectSeq(store, LAMBDA o : /\ o.resource = r.resource
                                /\ o.namespace = r.namespace)

\* the list the backend returns for the forwarded request (with filters)
Select(store, r, on, ids) ==
    SelectSeq(store, LAMBDA o : /\ o.resource = r.resource
                                /\ o.namespace = r.namespace
                                /\ on => <<o.name>> \in ids)

\* Forward Request (with filters), Kubernetes Response: get
ForwardGet ==
    /\ pc = "read"
    /\ req.verb = "get"
    /\ kubeCalls' = kubeCalls + 1
    /\ IF Exists(kube, Obj(req))
       THEN kresp' = 200 /\ items' = <<Obj(req)>> /\ Respond(200, <<Obj(req)>>)
       ELSE kresp' = 404 /\ items' = <<>> /\ Respond(404, <<>>)
    /\ UNCHANGED <<fnVars, rules, matched, apiVars, kube, rels, created, req, caller, txn, allowed,
                   filtered, relsBefore, kubeBefore, rollbackRun, inconsistent, graphErr,
                   watchVars>>

\* a proxy that sends no filter at all when the lookup found nothing
ForwardListEmptyIsAll ==
    /\ pc = "read"
    /\ req.verb = "list"
    /\ kubeCalls' = kubeCalls + 1
    /\ kresp' = 200
    /\ items' = Select(kube, req, filtered /\ allowed # {}, allowed)
    /\ IF AllPostFilters(matched) # {}
       THEN pc' = "postfilter" /\ resp' = resp
       ELSE Respond(200, Select(kube, req, filtered /\ allowed # {}, allowed))
    /\ UNCHANGED <<fnVars, rules, matched, apiVars, kube, rels, created, req, caller, txn, allowed,
                   filtered, relsBefore, kubeBefore, rollbackRun, inconsistent, graphErr,
                   watchVars>>

\* Forward Request (with filters), Kubernetes Response: list
ForwardList ==
    /\ pc = "read"
    /\ req.verb = "list"
    /\ kubeCalls' = kubeCalls + 1
    /\ kresp' = 200
    /\ items' = Select(kube, req, filtered, allowed)
    /\ IF AllPostFilters(matched) # {}
       THEN pc' = "postfilter" /\ resp' = resp
       ELSE Respond(200, Select(kube, req, filtered, allowed))
    /\ UNCHANGED <<fnVars, rules, matched, apiVars, kube, rels, created, req, caller, txn, allowed,
                   filtered, relsBefore, kubeBefore, rollbackRun, inconsistent, graphErr,
                   watchVars>>

\* per-item decision of the post-filter
ItemAllowed(graph, ts, r, o) ==
    \A t \in ts : CheckPermission(graph, Render(t, [r EXCEPT !.name = o.name]))

\* a post-filter that returns the retained items in reverse
FilterItemsReversed(graph, ts, r, list) ==
    LET kept == SelectSeq(list, LAMBDA o : ItemAllowed(graph, ts, r, o))
    IN [i \in 1..Len(kept) |-> kept[Len(kept) + 1 - i]]

\* loop For each item in response: CheckPermission per item, filter out
FilterItems(graph, ts, r, list) ==
    SelectSeq(list, LAMBDA o : ItemAllowed(graph, ts, r, o))

\* Post-filtering of a list response
PostFilter ==
    /\ pc = "postfilter"
    /\ items' = FilterItems(rels, AllPostFilters(matched),
                            req, items)
    /\ Respond(200, FilterItems(rels, AllPostFilters(matched),
                                req, items))
    /\ UNCHANGED <<fnVars, rules, matched, apiVars, kube, rels, created, req, caller, txn, kresp,
                   allowed, filtered, relsBefore, kubeBefore, kubeCalls,
                   rollbackRun, inconsistent, graphErr, watchVars>>

(***************************************************************************)
(* The permission graph does not answer                                    *)
(***************************************************************************)
\* the request in flight awaits the answer of a Check or a Lookup
AwaitsGraph ==
    \/ pc = "checks" /\ AllChecks(matched) # {}
    \/ pc = "prefilter" /\ HasPreFilter
    \/ pc = "postfilter"

\* a proxy that goes on as if the unanswered call had allowed the request
GraphUnavailableFailOpen ==
    /\ AwaitsGraph
    /\ graphErr' = TRUE
    /\ CASE pc = "checks" ->
              /\ pc' = IF req.verb \in WriteVerbs THEN "workflow" ELSE "prefilter"
              /\ txn' = IF req.verb \in WriteVerbs THEN "PENDING" ELSE txn
              /\ resp' = resp
         [] pc = "prefilter" -> pc' = "read" /\ txn' = txn /\ resp' = resp
         [] OTHER -> Respond(200, items) /\ txn' = txn
    /\ UNCHANGED <<fnVars, rules, matched, apiVars, kube, rels, created, req, caller, kresp,
                   allowed, filtered, items, relsBefore, kubeBefore, kubeCalls,
                   rollbackRun, inconsistent, watchVars>>

\* a Check or a Lookup ends in a network or timeout error: the request is
\* denied with a graph-unavailable error
GraphUnavailable ==
    /\ AwaitsGraph
    /\ graphErr' = TRUE
    /\ Respond(503, <<>>)
    /\ UNCHANGED <<fnVars, rules, matched, apiVars, kube, rels, created, req, caller, txn, kresp,
                   allowed, filtered, items, relsBefore, kubeBefore, kubeCalls,
                   rollbackRun, inconsistent, watchVars>>

(***************************************************************************)
(* Watch operation: the response filterer                                  *)
(***************************************************************************)
\* Forward Request (with filters): watch; Start response filterer
StartWatch ==
    /\ pc = "read"
    /\ req.verb = "watch"
    /\ kubeCalls' = kubeCalls + 1
    /\ kresp' = 200
    /\ wOpen' = TRUE
    /\ wUser' = req.user
    /\ wRaw' = <<>>
    /\ wCursor' = 0
    /\ wFwd' = <<>>
    /\ wChecking' = FALSE
    /\ wGone' = FALSE
    /\ Respond(200, <<>>)
    /\ UNCHANGED <<fnVars, rules, matched, apiVars, kube, rels, created, req, caller, txn, allowed,
                   filtered, items, relsBefore, kubeBefore, rollbackRun,
                   inconsistent, graphErr>>

\* loop For each watch event: CheckPermission for event object
WatchCheck ==
    /\ wOpen
    /\ ~wGone
    /\ ~wChecking
    /\ wCursor < Len(wRaw)
    /\ wChecking' = TRUE
    /\ UNCHANGED <<fnVars, rules, matched, apiVars, kube, rels, created, reqVars, wOpen, wUser, wGone,
                   wRaw, wCursor, wFwd>>

EventAllowed(graph, u, e) ==
    \A t \in UNION {Range(x.PreFilters) :
                        x \in {y \in rules : "watch" \in y.Verbs}} :
        CheckPermission(graph, Render([t EXCEPT !.id = "name"],
                                      [NoReq EXCEPT !.name = e.name, !.user = u]))

\* a filterer that puts an allowed event in front of the ones already sent
ForwardEventFirst(fwd, i) == <<i>> \o fwd

\* alt Authorized: Forward Watch Event
ForwardEvent(fwd, i) == Append(fwd, i)

\* a filterer that ends the stream at the first unauthorized event
WatchDecideClosesOnDenied ==
    /\ wOpen
    /\ ~wGone
    /\ wChecking
    /\ wChecking' = FALSE
    /\ wCursor' = wCursor + 1
    /\ wOpen' = EventAllowed(rels, wUser, wRaw[wCursor + 1])
    /\ wFwd' = IF EventAllowed(rels, wUser, wRaw[wCursor + 1])
               THEN ForwardEvent(wFwd, wCursor + 1)
               ELSE wFwd
    /\ UNCHANGED <<fnVars, rules, matched, apiVars, kube, rels, created, reqVars, wUser, wRaw, wGone>>

\* Event Permission Result: forward the event or filter it out
WatchDecide ==
    /\ wOpen
    /\ ~wGone
    /\ wChecking
    /\ wChecking' = FALSE
    /\ wCursor' = wCursor + 1
    /\ wFwd' = IF EventAllowed(rels, wUser, wRaw[wCursor + 1])
               THEN ForwardEvent(wFwd, wCursor + 1)
               ELSE wFwd
    /\ UNCHANGED <<fnVars, rules, matched, apiVars, kube, rels, created, reqVars, wOpen, wUser, wRaw,
                   wGone>>


\* the client disconnects, or the context of the watch request is canceled
ClientDisconnect ==
    /\ wOpen
    /\ ~wGone
    /\ wGone' = TRUE
    /\ UNCHANGED <<fnVars, rules, matched, apiVars, kube, rels, created, reqVars, wOpen, wUser,
                   wRaw, wCursor, wFwd, wChecking>>

\* a filterer that stops but leaves its permission check in flight
WatchTerminateLeavesCheck ==
    /\ wOpen
    /\ wGone
    /\ wOpen' = FALSE
    /\ UNCHANGED <<fnVars, rules, matched, apiVars, kube, rels, created, reqVars, wUser, wRaw,
                   wCursor, wFwd, wChecking, wGone>>

\* the cancellation reaches the filterer: it stops, and the permission check
\* in flight and the backend watch subscription are released
WatchTerminate ==
    /\ wOpen
    /\ wGone
    /\ wOpen' = FALSE
    /\ wChecking' = FALSE
    /\ UNCHANGED <<fnVars, rules, matched, apiVars, kube, rels, created, reqVars, wUser, wRaw,
                   wCursor, wFwd, wGone>>

(***************************************************************************)
(* The response is written and the request ends                            *)
(***************************************************************************)
Finish ==
    /\ pc = "done"
    /\ hpc # "action"
    /\ pc' = "idle"
    /\ req' = NoReq
    /\ caller' = <<>>
    /\ txn' = "NONE"
    /\ kresp' = 0
    /\ allowed' = {}
    /\ filtered' = FALSE
    /\ items' = <<>>
    /\ resp' = NoResp
    /\ relsBefore' = {}
    /\ kubeBefore' = <<>>
    /\ kubeCalls' = 0
    /\ rollbackRun' = FALSE
    /\ inconsistent' = FALSE
    /\ graphErr' = FALSE
    /\ matched' = {}
    /\ UNCHANGED <<fnVars, rules, apiVars, kube, rels, created, watchVars>>

Next ==
    \/ ClientRequestOf({Alice}, Verbs, {"namespaces", "pods", "secrets"}, Names)
    \/ ApiCreateNamespace
    \/ ApiListNamespaces
    \/ RuleNotMatched
    \/ RuleMatched
    \/ PermissionDenied
    \/ PermissionGranted
    \/ PreconditionResult
    \/ PreconditionsFailed
    \/ PreconditionsPass
    \/ KubeSuccess
    \/ KubeFailure
    \/ K8sFailure
    \/ WriteRelationships
    \/ TransactionSuccess
    \/ CleanupRollback
    \/ TransactionFailed
    \/ CommitFailed
    \/ Compensate
    \/ CompensationDone
    \/ CompensationImpossible
    \/ PreFilter
    \/ NoPreFilter
    \/ GraphUnavailable
    \/ ForwardGet
    \/ ForwardList
    \/ PostFilter
    \/ Finish

Spec == Init(RuleTables, {NoArg}, {TRUE}) /\ [][Next]_vars

NextDeploy ==
    \/ DeployClientRequest
    \/ RuleNotMatched
    \/ RuleMatched
    \/ PermissionDenied
    \/ PermissionGranted
    \/ PreconditionResult
    \/ PreconditionsFailed
    \/ PreconditionsPass
    \/ KubeSuccess
    \/ KubeFailure
    \/ K8sFailure
    \/ WriteRelationships
    \/ TransactionSuccess
    \/ CleanupRollback
    \/ TransactionFailed
    \/ CommitFailed
    \/ Compensate
    \/ CompensationDone
    \/ CompensationImpossible
    \/ PreFilter
    \/ NoPreFilter
    \/ GraphUnavailable
    \/ ForwardGet
    \/ ForwardList
    \/ StartWatch
    \/ WatchCheck
    \/ WatchDecide
    \/ Finish

SpecDeploy == Init({deployRules}, {NoArg}, {TRUE}) /\ [][NextDeploy]_vars

TransactionStep ==
    \/ PreconditionResult
    \/ PreconditionsFailed
    \/ PreconditionsPass
    \/ KubeSuccess
    \/ KubeFailure
    \/ K8sFailure
    \/ WriteRelationships
    \/ TransactionSuccess
    \/ CleanupRollback
    \/ TransactionFailed
    \/ CommitFailed
    \/ Compensate
    \/ CompensationDone
    \/ CompensationImpossible

NextWrite ==
    \/ ClientRequestOf({Alice}, WriteVerbs, {"namespaces", "pods", "secrets"}, Names)
    \/ RuleNotMatched
    \/ RuleMatched
    \/ PermissionDenied
    \/ PermissionGranted
    \/ GraphUnavailable
    \/ PreconditionResult
    \/ PreconditionsFailed
    \/ PreconditionsPass
    \/ KubeSuccess
    \/ KubeFailure
    \/ K8sFailure
    \/ WriteRelationships
    \/ TransactionSuccess
    \/ CleanupRollback
    \/ TransactionFailed
    \/ CommitFailed
    \/ Compensate
    \/ CompensationDone
    \/ CompensationImpossible
    \/ Finish

SpecWrite ==
    /\ Init({ruleConfigs}, {NoArg}, {TRUE})
    /\ [][NextWrite]_vars
    /\ WF_vars(TransactionStep)

\* a proxy whose table has several rules for the same request
OverlapRequest ==
    \/ ClientRequestOf(DeployUsers, {"create", "get"}, {"namespaces"}, DeployNames)
    \/ ClientRequestOf({Bob}, {"delete"}, {"namespaces"}, DeployNames)

NextOverlap ==
    \/ OverlapRequest
    \/ RuleNotMatched
    \/ RuleMatched
    \/ PermissionDenied
    \/ PermissionGranted
    \/ GraphUnavailable
    \/ PreconditionResult
    \/ PreconditionsFailed
    \/ PreconditionsPass
    \/ KubeSuccess
    \/ KubeFailure
    \/ K8sFailure
    \/ WriteRelationships
    \/ TransactionSuccess
    \/ CleanupRollback
    \/ TransactionFailed
    \/ CommitFailed
    \/ Compensate
    \/ CompensationDone
    \/ CompensationImpossible
    \/ NoPreFilter
    \/ ForwardGet
    \/ Finish

SpecOverlap == Init({overlapRules}, {NoArg}, {TRUE}) /\ [][NextOverlap]_vars

NextCond ==
    \/ ClientRequestOf({Alice}, {"create", "get", "delete"}, {"namespaces"}, Names)
    \/ RuleNotMatched
    \/ RuleMatched
    \/ PermissionDenied
    \/ PermissionGranted
    \/ GraphUnavailable
    \/ PreconditionResult
    \/ PreconditionsFailed
    \/ PreconditionsPass
    \/ KubeSuccess
    \/ KubeFailure
    \/ K8sFailure
    \/ WriteRelationships
    \/ TransactionSuccess
    \/ CleanupRollback
    \/ TransactionFailed
    \/ CommitFailed
    \/ Compensate
    \/ CompensationDone
    \/ CompensationImpossible
    \/ NoPreFilter
    \/ ForwardGet
    \/ Finish

SpecCond ==
    /\ Init({NewMapMatcher(condRules), NewMapMatcher(malformedRules)},
            {NoArg}, {TRUE})
    /\ [][NextCond]_vars

\* the configuration is reloaded: a new table is built and the active
\* reference is swapped, whatever the request in flight is doing
Reload ==
    /\ rules' \in ReloadTables \ {rules}
    /\ UNCHANGED <<fnVars, matched, kube, rels, created, reqVars, watchVars, apiVars>>

ReloadRequest ==
    ClientRequestOf(DeployUsers, {"create", "get", "delete"}, {"namespaces"},
                    DeployNames)

NextReload ==
    \/ ReloadRequest
    \/ Reload
    \/ RuleNotMatched
    \/ RuleMatched
    \/ PermissionDenied
    \/ PermissionGranted
    \/ GraphUnavailable
    \/ PreconditionResult
    \/ PreconditionsFailed
    \/ PreconditionsPass
    \/ KubeSuccess
    \/ KubeFailure
    \/ K8sFailure
    \/ WriteRelationships
    \/ TransactionSuccess
    \/ CleanupRollback
    \/ TransactionFailed
    \/ CommitFailed
    \/ Compensate
    \/ CompensationDone
    \/ CompensationImpossible
    \/ NoPreFilter
    \/ ForwardGet
    \/ Finish

SpecReload == Init(ReloadTables, {NoArg}, {TRUE}) /\ [][NextReload]_vars

\* a watch whose client goes away; the cancellation is delivered to the
\* filterer of every watch that is still open
WatchRequest ==
    \/ ClientRequestOf({Alice}, {"watch"}, {"namespaces"}, DeployNames)
    \/ ClientRequestOf(DeployUsers, {"create"}, {"namespaces"}, DeployNames)

NextWatch ==
    \/ WatchRequest
    \/ RuleMatched
    \/ PermissionGranted
    \/ GraphUnavailable
    \/ PreconditionResult
    \/ PreconditionsFailed
    \/ PreconditionsPass
    \/ KubeSuccess
    \/ KubeFailure
    \/ K8sFailure
    \/ WriteRelationships
    \/ TransactionSuccess
    \/ CleanupRollback
    \/ TransactionFailed
    \/ CommitFailed
    \/ Compensate
    \/ CompensationDone
    \/ CompensationImpossible
    \/ PreFilter
    \/ StartWatch
    \/ WatchCheck
    \/ WatchDecide
    \/ ClientDisconnect
    \/ WatchTerminate
    \/ Finish

SpecWatch ==
    /\ Init({deployRules}, {NoArg}, {TRUE})
    /\ [][NextWatch]_vars
    /\ WF_vars(WatchTerminate)

(***************************************************************************)
(* Pods of two users in two namespaces                                     *)
(***************************************************************************)
PodRequest ==
    \/ \E u \in DeployUsers, verb \in {"create", "get", "delete"}, ns \in DeployNames,
          name \in PodNames :
           Arrive(u, u, verb, "pods", ns, name) /\ UNCHANGED apiVars
    \/ \E u \in DeployUsers, name \in DeployNames :
           Arrive(u, u, "create", "namespaces", "", name) /\ UNCHANGED apiVars

NextPods ==
    \/ PodRequest
    \/ RuleMatched
    \/ PermissionDenied
    \/ PermissionGranted
    \/ PreconditionResult
    \/ PreconditionsFailed
    \/ PreconditionsPass
    \/ KubeSuccess
    \/ KubeFailure
    \/ K8sFailure
    \/ WriteRelationships
    \/ TransactionSuccess
    \/ CleanupRollback
    \/ TransactionFailed
    \/ CommitFailed
    \/ Compensate
    \/ CompensationDone
    \/ CompensationImpossible
    \/ NoPreFilter
    \/ GraphUnavailable
    \/ ForwardGet
    \/ Finish

SpecPods == Init({ruleConfigs}, {NoArg}, {TRUE}) /\ [][NextPods]_vars

(***************************************************************************)
(* The text of a rendered template.  A text is a sequence of tokens: the   *)
(* separators ":", "#", "@" and words without a separator in them.         *)
(***************************************************************************)
Texts(alphabet, n) == UNION {[1..k -> alphabet] : k \in 1..n}

\* names the Kubernetes API accepts are one word; user names are any text
RenderContexts ==
    [name : {"a", "b", "web-1"}, namespace : {"a", "b"},
     user : Texts({"bob", ":", "#", "@"}, MaxText)]

\* the text a placeholder stands for
FieldText(ctx, ph) ==
    CASE ph = "name" -> <<ctx.name>>
      [] ph = "namespace" -> <<ctx.namespace>>
      [] OTHER -> ctx.user

\* a renderer that cuts the subject at its first separator
RenderTextFirstWord(t, ctx) ==
    <<t.rt, ":">> \o FieldText(ctx, t.id) \o <<"#", t.rel, "@", t.st, ":">>
        \o <<FieldText(ctx, t.sid)[1]>>

\* "rt:{{id}}#rel@st:{{sid}}" with its placeholders replaced
RenderText(t, ctx) ==
    <<t.rt, ":">> \o FieldText(ctx, t.id) \o <<"#", t.rel, "@", t.st, ":">>
        \o FieldText(ctx, t.sid)

\* position of the first tok at or after from, 0 if there is none
FirstIndex(text, tok, from) ==
    LET I == {i \in from..Len(text) : text[i] = tok}
    IN IF I = {} THEN 0 ELSE CHOOSE i \in I : \A k \in I : i <= k

\* the five parts of the text of a relationship
ParseTuple(text) ==
    LET i == FirstIndex(text, ":", 1)
        j == FirstIndex(text, "#", i + 1)
        k == FirstIndex(text, "@", j + 1)
        l == FirstIndex(text, ":", k + 1)
    IN [rt |-> SubSeq(text, 1, i - 1), rid |-> SubSeq(text, i + 1, j - 1),
        rel |-> SubSeq(text, j + 1, k - 1), st |-> SubSeq(text, k + 1, l - 1),
        sid |-> SubSeq(text, l + 1, Len(text))]

RenderTemplate ==
    /\ fnArg.fn = "render"
    /\ fnOut = NoOut
    /\ fnOut' = RenderText(fnArg.tpl, fnArg.ctx)
    /\ UNCHANGED <<fnArg, rules, matched, kube, rels, created, reqVars, watchVars,
                   apiVars>>

NextRender == RenderTemplate

SpecRender ==
    /\ Init({ruleConfigs},
            [fn : {"render"},
             tpl : UNION {Range(x.Checks) \cup Range(x.CreateRelationships) :
                             x \in ruleConfigs},
             ctx : RenderContexts], {TRUE})
    /\ [][NextRender]_vars

(***************************************************************************)
(* sanitizeUserName evaluated on its own.  A user name is the sequence of  *)
(* its segments between ":"; a segment is a word.                          *)
(***************************************************************************)
\* words of [a-zA-Z0-9/_|=+-], the characters of a SpiceDB object id
IdWords == {"system", "serviceaccount", "ns1", "bob"}
SanitizeNames == Texts(IdWords \cup {"bob@example.com"}, MaxSegments)

Sanitize ==
    /\ fnArg.fn = "sanitizeUserName"
    /\ fnOut = NoOut
    /\ fnOut' = sanitizeUserName(fnArg.userName)
    /\ UNCHANGED <<fnArg, rules, matched, kube, rels, created, reqVars, watchVars,
                   apiVars>>

NextSanitize == Sanitize

SpecSanitize ==
    /\ Init({ruleConfigs},
            [fn : {"sanitizeUserName"}, userName : SanitizeNames], {TRUE})
    /\ [][NextSanitize]_vars

(***************************************************************************)
(* The HTTP API: authentication, RBAC check, proxy operation               *)
(***************************************************************************)
Mallory == <<"mallory">>

\* Authorization header as <<scheme, credentials>>; <<>> is no header
AuthorizationHeaders == {<<>>, <<"Bearer", "good">>, <<"Bearer", "bad">>, <<"Basic", "x">>}
\* r.TLS.PeerCertificates: no certificate, one without and one with a CommonName
PeerCertificates == {<<>>, <<[CommonName |-> <<>>]>>, <<[CommonName |-> Bob]>>}
\* X-Remote-User header; <<>> is the empty string
RemoteUsers == {<<>>, Alice}

\* TokenReviews().Create: the call fails for "unreviewed", the review
\* accepts "good" and rejects every other token
authenticateToken(token) ==
    CASE token = "unreviewed" ->
            [Authenticated |-> FALSE, User |-> <<>>, Error |-> "token review failed"]
      [] token = "good" ->
            [Authenticated |-> TRUE, User |-> UserInfo(SA1, <<"uid-1">>),
             Error |-> ""]
      [] OTHER ->
            [Authenticated |-> FALSE, User |-> <<>>,
             Error |-> "token authentication failed"]

authenticateCertificate(r) ==
    LET username == r.cert[1].CommonName IN
    IF username = <<>>
    THEN [Authenticated |-> FALSE, User |-> <<>>,
          Error |-> "no common name in client certificate"]
    ELSE [Authenticated |-> TRUE, User |-> UserInfo(username, username), Error |-> ""]

\* an Authenticator that goes on to the next method when one fails
AuthenticateRequestWithFallback(r) ==
    IF /\ r.authorization # <<>>
       /\ r.authorization[1] = "Bearer"
       /\ authenticateToken(r.authorization[2]).Authenticated
    THEN authenticateToken(r.authorization[2])
    ELSE IF Len(r.cert) > 0 /\ authenticateCertificate(r).Authenticated
    THEN authenticateCertificate(r)
    ELSE IF r.remoteUser # <<>>
    THEN [Authenticated |-> TRUE, User |-> UserInfo(r.remoteUser, r.remoteUser),
          Error |-> ""]
    ELSE [Authenticated |-> FALSE, User |-> <<>>,
          Error |-> "no valid authentication method found"]

\* Authenticator.AuthenticateRequest
AuthenticateRequest(r) ==
    IF r.authorization # <<>> /\ r.authorization[1] = "Bearer"
    THEN authenticateToken(r.authorization[2])
    ELSE IF Len(r.cert) > 0
    THEN authenticateCertificate(r)
    ELSE IF r.remoteUser # <<>>
    THEN [Authenticated |-> TRUE, User |-> UserInfo(r.remoteUser, r.remoteUser),
          Error |-> ""]
    ELSE [Authenticated |-> FALSE, User |-> <<>>,
          Error |-> "no valid authentication method found"]

\* a step of the handler and whether it returned without error
Call(step, ok) == [step |-> step, ok |-> ok]

\* a handler that prefers the username field of the request body
HandlerUserFromBody(r, u) ==
    IF r.username # <<>> THEN r.username
    ELSE IF sanitizes THEN sanitizeUserName(u) ELSE u

\* the user name the handlers hand to the proxy and echo in the response:
\* user.Username (server.go) or sanitizeUserName(user.Username) (part_002)
HandlerUser(r, u) == IF sanitizes THEN sanitizeUserName(u) ELSE u

\* writeJSON(w, api.Response{Success: false, Error: ...})
ApiFail(err) ==
    /\ hresp' = [NoApiResp EXCEPT !.Error = err]
    /\ hpc' = "replied"

\* a POST arrives at /api/namespaces/create, /list or /grant-view
ApiReceive ==
    /\ hpc = "idle"
    /\ pc = "idle"
    /\ \E endpoint \in {"create", "list"} \cup (IF sanitizes THEN {"grant-view"} ELSE {}),
          authorization \in AuthorizationHeaders, cert \in PeerCertificates,
          remoteUser \in RemoteUsers, json \in BOOLEAN,
          namespace \in DeployNames \cup {""}, user \in {<<>>, Mallory},
          username \in {<<>>, Mallory} :
          /\ endpoint = "create" => Len(kube) < MaxObjects
          /\ endpoint = "list" => (json /\ namespace = "" /\ user = <<>>)
          /\ endpoint = "create" => user = <<>>
          /\ endpoint = "grant-view" => username = <<>>
          /\ ~json => (namespace = "" /\ user = <<>> /\ username = <<>>)
          /\ http' = [endpoint |-> endpoint, authorization |-> authorization,
                      cert |-> cert, remoteUser |-> remoteUser, json |-> json,
                      namespace |-> namespace, user |-> user, username |-> username]
    /\ hpc' = "auth"
    /\ huser' = NoAuth
    /\ hcalls' = <<>>
    /\ hresp' = NoApiResp
    /\ UNCHANGED <<fnVars, rules, matched, kube, rels, created, reqVars, watchVars, sanitizes>>

\* user, err := proxy.AuthenticateFromRequest(r)
ApiAuthenticate ==
    /\ hpc = "auth"
    /\ huser' = AuthenticateRequest(http)
    /\ hcalls' = Append(hcalls, Call("AuthenticateFromRequest",
                                      AuthenticateRequest(http).Authenticated))
    /\ IF AuthenticateRequest(http).Authenticated
       THEN /\ hpc' = IF http.endpoint = "list" THEN "rbac" ELSE "decode"
            /\ hresp' = hresp
       ELSE ApiFail("Authentication failed")
    /\ UNCHANGED <<fnVars, rules, matched, kube, rels, created, reqVars, watchVars, sanitizes, http>>

\* json.NewDecoder(r.Body).Decode(&req) and the required fields
ApiDecode ==
    /\ hpc = "decode"
    /\ IF ~http.json THEN ApiFail("Invalid JSON")
       ELSE IF http.namespace = "" THEN ApiFail("Namespace is required")
       ELSE IF http.endpoint = "grant-view" /\ http.user = <<>>
       THEN ApiFail("Both namespace and user are required")
       ELSE hpc' = "rbac" /\ hresp' = hresp
    /\ UNCHANGED <<fnVars, rules, matched, kube, rels, created, reqVars, watchVars, sanitizes,
                   http, huser, hcalls>>

\* a handler that drops the error of the RBAC check
ApiRbacIgnoringError ==
    /\ hpc = "rbac"
    /\ \E review \in {"allowed", "denied", "error"} :
          /\ hcalls' = Append(hcalls, Call("CheckKubernetesPermission",
                                            review = "allowed"))
          /\ CASE review = "denied" -> ApiFail("User does not have permission")
               [] OTHER -> hpc' = "invoke" /\ hresp' = hresp
    /\ UNCHANGED <<fnVars, rules, matched, kube, rels, created, reqVars, watchVars, sanitizes,
                   http, huser>>

\* allowed, err := proxy.CheckKubernetesPermission(...): SubjectAccessReview
ApiRbac ==
    /\ hpc = "rbac"
    /\ \E review \in {"allowed", "denied", "error"} :
          /\ hcalls' = Append(hcalls, Call("CheckKubernetesPermission",
                                            review = "allowed"))
          /\ CASE review = "allowed" -> hpc' = "invoke" /\ hresp' = hresp
               [] review = "denied" -> ApiFail("User does not have permission")
               [] OTHER -> ApiFail("Permission check failed")
    /\ UNCHANGED <<fnVars, rules, matched, kube, rels, created, reqVars, watchVars, sanitizes,
                   http, huser>>

\* proxy.CreateNamespaceAsUser / proxy.ListNamespacesAsUser with the
\* authenticated user
ApiInvoke ==
    /\ hpc = "invoke"
    /\ http.endpoint \in {"create", "list"}
    /\ Arrive(HandlerUser(http, UsernameOf(huser)), UsernameOf(huser), http.endpoint,
              "namespaces", "", http.namespace)
    /\ hpc' = "action"
    /\ hcalls' = Append(hcalls,
                        Call(IF http.endpoint = "create" THEN "CreateNamespaceAsUser"
                             ELSE "ListNamespacesAsUser", TRUE))
    /\ UNCHANGED <<sanitizes, http, huser, hresp>>

\* the relationship GrantViewPermission writes
GrantViewPermission(graph, namespace, user) ==
    graph \cup {[rt |-> "namespace", rid |-> <<namespace>>, rel |-> "viewer",
                 st |-> "user", sid |-> user]}

\* proxy.GrantViewPermission(ctx, req.Namespace, sanitizeUserName(req.User))
ApiGrantView ==
    /\ hpc = "invoke"
    /\ http.endpoint = "grant-view"
    /\ \E ok \in BOOLEAN :
          /\ hcalls' = Append(hcalls, Call("GrantViewPermission", ok))
          /\ IF ok
             THEN /\ rels' = GrantViewPermission(rels, http.namespace,
                                                 sanitizeUserName(http.user))
                  /\ hresp' = [NoApiResp EXCEPT !.Success = TRUE,
                                                !.user = sanitizeUserName(http.user)]
                  /\ hpc' = "replied"
             ELSE /\ rels' = rels
                  /\ ApiFail("Failed to grant view permission")
    /\ UNCHANGED <<fnVars, rules, matched, kube, created, reqVars, watchVars, sanitizes, http, huser>>

\* the proxy operation returned: writeJSON of the result
ApiReply ==
    /\ hpc = "action"
    /\ pc = "done"
    /\ IF resp.status \in {200, 201}
       THEN /\ hresp' = [Success |-> TRUE,
                         user |-> HandlerUser(http, UsernameOf(huser)),
                         namespaces |-> [i \in 1..Len(resp.items) |-> resp.items[i].name],
                         Error |-> ""]
            /\ hpc' = "replied"
       ELSE ApiFail("operation failed")
    /\ UNCHANGED <<fnVars, rules, matched, kube, rels, created, reqVars, watchVars, sanitizes,
                   http, huser, hcalls>>

\* the handler returns
ApiReturn ==
    /\ hpc = "replied"
    /\ pc = "idle"
    /\ http' = NoHttp
    /\ hpc' = "idle"
    /\ huser' = NoAuth
    /\ hcalls' = <<>>
    /\ hresp' = NoApiResp
    /\ UNCHANGED <<fnVars, rules, matched, kube, rels, created, reqVars, watchVars, sanitizes>>

NextApi ==
    \/ ApiReceive
    \/ ApiAuthenticate
    \/ ApiDecode
    \/ ApiRbac
    \/ ApiInvoke
    \/ ApiGrantView
    \/ ApiReply
    \/ ApiReturn
    \/ RuleMatched
    \/ PermissionGranted
    \/ PreconditionResult
    \/ PreconditionsFailed
    \/ PreconditionsPass
    \/ KubeSuccess
    \/ KubeFailure
    \/ K8sFailure
    \/ WriteRelationships
    \/ TransactionSuccess
    \/ CleanupRollback
    \/ TransactionFailed
    \/ CommitFailed
    \/ Compensate
    \/ CompensationDone
    \/ CompensationImpossible
    \/ PreFilter
    \/ GraphUnavailable
    \/ ForwardList
    \/ Finish

SpecApi == Init({ruleConfigs}, {NoArg}, BOOLEAN) /\ [][NextApi]_vars

(***************************************************************************)
(* AuthMiddleware wrapped around a handler                                 *)
(***************************************************************************)
\* requests given to the middleware; the review of "unreviewed" fails
MiddlewareRequests ==
    {[NoHttp EXCEPT !.authorization = a, !.cert = c, !.remoteUser = u] :
        a \in AuthorizationHeaders \cup {<<"Bearer", "unreviewed">>},
        c \in PeerCertificates,
        u \in RemoteUsers \cup {Bob}}

\* context.WithValue(r.Context(), "user", authResult.User)
WithUser(user) == [user |-> user]

\* GetUserFromContext
GetUserFromContext(ctx) ==
    IF "user" \in DOMAIN ctx THEN [user |-> ctx.user, ok |-> TRUE]
    ELSE [user |-> <<>>, ok |-> FALSE]

\* what the middleware did: the status written and the contexts with which
\* the wrapped handler was invoked
Served(status, next) == <<[status |-> status, next |-> next]>>

\* authResult := a.AuthenticateRequest(r)
MiddlewareAuthenticate ==
    /\ fnArg.fn = "AuthMiddleware"
    /\ huser = NoAuth
    /\ fnOut = NoOut
    /\ huser' = AuthenticateRequest(fnArg.r)
    /\ UNCHANGED <<fnVars, rules, matched, kube, rels, created, reqVars, watchVars,
                   sanitizes, http, hpc, hcalls, hresp>>

\* http.Error(w, "Authentication failed: ...", http.StatusUnauthorized); return
MiddlewareUnauthorized ==
    /\ fnArg.fn = "AuthMiddleware"
    /\ huser # NoAuth
    /\ fnOut = NoOut
    /\ ~huser.Authenticated
    /\ fnOut' = Served(401, <<>>)
    /\ UNCHANGED <<fnArg, rules, matched, kube, rels, created, reqVars, watchVars,
                   apiVars>>

\* a middleware that goes on to the handler whatever the result
MiddlewareNextUnguarded ==
    /\ fnArg.fn = "AuthMiddleware"
    /\ huser # NoAuth
    /\ fnOut = NoOut
    /\ fnOut' = Served(200, <<WithUser(huser.User)>>)
    /\ UNCHANGED <<fnArg, rules, matched, kube, rels, created, reqVars, watchVars,
                   apiVars>>

\* ctx := context.WithValue(...); next(w, r.WithContext(ctx))
MiddlewareNext ==
    /\ fnArg.fn = "AuthMiddleware"
    /\ huser # NoAuth
    /\ fnOut = NoOut
    /\ huser.Authenticated
    /\ fnOut' = Served(200, <<WithUser(huser.User)>>)
    /\ UNCHANGED <<fnArg, rules, matched, kube, rels, created, reqVars, watchVars,
                   apiVars>>

NextMiddleware ==
    \/ MiddlewareAuthenticate
    \/ MiddlewareUnauthorized
    \/ MiddlewareNext

SpecMiddleware ==
    /\ Init({ruleConfigs}, [fn : {"AuthMiddleware"}, r : MiddlewareRequests],
            {TRUE})
    /\ [][NextMiddleware]_vars

(***************************************************************************)
(* Properties                                                              *)
(***************************************************************************)
\* the request has been decided on: it is past rule matching
Decided == pc \notin {"idle", "match"}

\* nothing was sent to the backend and neither store changed
Untouched == kubeCalls = 0 /\ kube = kubeBefore /\ rels = relsBefore

\* C1: a request whose (group/version, resource, verb) matches no configured
\* rule is answered 403 and is never forwarded to the backend; with the rule
\* set of NewSpiceDBKubeProxy this covers namespaces delete/update/watch and
\* every unlisted resource.
C1_UnmatchedDenied ==
    /\ (Decided /\ MatchingRules(rules, req) = {}) =>
           (pc = "done" /\ resp.status = 403 /\ Untouched)
    /\ (/\ Decided
        /\ rules = ruleConfigs
        /\ \/ req.resource = "namespaces" /\ req.verb \in {"delete", "update", "watch"}
           \/ req.resource = "secrets") =>
           (pc = "done" /\ resp.status = 403 /\ Untouched)

C1_Witness ==
    /\ pc = "done"
    /\ rules = ruleConfigs
    /\ req.verb = "delete"
    /\ req.resource = "namespaces"
    /\ Exists(kube, Obj(req))
    /\ resp.status = 403

C4_PreconditionFailed ==
    txn = "PRECONDITION_FAILED" =>
        (pc = "done" /\ resp.status = 400 /\ Untouched)

C4_Witness ==
    /\ pc = "done"
    /\ txn = "PRECONDITION_FAILED"
    /\ req.verb = "create"
    /\ ~Exists(kube, Obj(req))
    /\ resp.status = 400

\* C5: when the relationship commit fails after a successful backend
\* mutation the transaction is COMPENSATING; it ends COMPENSATED with a
\* server error and either the backend mutation reversed or the inconsistency
\* flag set; a write reported as a success has its update in the graph.
C5_CommitFailureSurfaced ==
    LET UpdateCommitted ==
            /\ RenderAll(AllCreates(MatchingRules(rules, req)), req) \subseteq rels
            /\ RenderAll(AllDeletes(MatchingRules(rules, req)), req) \cap rels = {}
    IN
        /\ pc = "compensate" => (txn = "COMPENSATING" /\ kresp \in {200, 201})
        /\ (pc = "done" /\ txn = "COMPENSATED" /\ kresp \in {200, 201}) =>
               /\ resp.status = 500
               /\ rels = relsBefore
               /\ kube = kubeBefore \/ inconsistent
        /\ (pc = "done" /\ req.verb \in WriteVerbs /\ resp.status \in {200, 201}) =>
               (txn = "DONE" /\ ~inconsistent /\ UpdateCommitted)

C5_Witness ==
    /\ pc = "done"
    /\ txn = "COMPENSATED"
    /\ kresp = 201
    /\ inconsistent
    /\ kube # kubeBefore
    /\ resp.status = 500

\* a relationship that gives user u the view permission on namespace n,
\* read directly from the stored relationships
DirectView(u, n) ==
    \E x \in rels : /\ x.rt = "namespace"
                    /\ x.rid = <<n>>
                    /\ x.rel \in {"viewer", "creator"}
                    /\ x.st = "user"
                    /\ x.sid = u

\* the namespaces of the backend, in the backend's order
BackendNamespaces == SelectSeq(kube, LAMBDA o : o.resource = "namespaces")

\* a namespace list request has been answered
ListAnswered ==
    /\ pc = "done"
    /\ req.verb = "list"
    /\ req.resource = "namespaces"
    /\ resp.status = 200

\* C6: for a list matched by a rule with a post-filter, every returned item
\* passes a direct check of the view permission for the caller, every backend
\* item that passes is returned, and the items keep the backend's order.
C6_PostFilterList ==
    (ListAnswered /\ AllPostFilters(matched) # {}) =>
        /\ \A i \in 1..Len(resp.items) : DirectView(req.user, resp.items[i].name)
        /\ resp.items = SelectSeq(BackendNamespaces,
                                  LAMBDA o : DirectView(req.user, o.name))

C6_Witness ==
    /\ ListAnswered
    /\ AllPostFilters(matched) # {}
    /\ Len(BackendNamespaces) = 3
    /\ Len(resp.items) = 2
    /\ resp.items[1] = BackendNamespaces[1]
    /\ resp.items[2] = BackendNamespaces[3]

\* C7: at every point of a watch connection the forwarded events are events
\* the backend sent and the filterer has decided on, each forwarded once and
\* in the backend's order (wFwd holds their positions in wRaw).
C7_WatchSubsequence ==
    /\ \A i \in 1..Len(wFwd) : wFwd[i] \in 1..wCursor
    /\ wCursor <= Len(wRaw)
    /\ \A i, j \in 1..Len(wFwd) : i < j => wFwd[i] < wFwd[j]

C7_Witness ==
    /\ wOpen
    /\ wCursor = 2
    /\ wFwd = <<2>>

\* the list request the pre-filter narrows
NamespaceList == [NoReq EXCEPT !.verb = "list", !.gv = "v1", !.resource = "namespaces"]

C9_UserIsolation ==
    LET ViewerGranted(u, o) ==
            [rt |-> "namespace", rid |-> <<o.name>>, rel |-> "viewer", st |-> "user",
             sid |-> sanitizeUserName(u)] \in rels
    IN
        (ListAnswered /\ caller \in ApiUsers) =>
            \A i \in 1..Len(resp.items) :
                \A c \in created :
                    c.obj = resp.items[i] =>
                        (c.by = caller \/ ViewerGranted(caller, c.obj))

C11_GetChecked ==
    LET DirectGetAllowed ==
            CASE req.resource = "namespaces" -> DirectView(req.user, req.name)
              [] req.resource = "pods" ->
                    [rt |-> "pod", rid |-> <<req.name>>, rel |-> "creator",
                     st |-> "user", sid |-> req.user] \in rels
              [] OTHER -> FALSE
    IN
        (/\ Decided
         /\ req.verb = "get"
         /\ AllChecks(MatchingRules(rules, req)) # {}) =>
            /\ kubeCalls > 0 => (DirectGetAllowed /\ ~graphErr)
            /\ (pc \notin {"checks"} /\ ~DirectGetAllowed) =>
                   /\ pc = "done"
                   /\ resp.status = IF graphErr THEN 503 ELSE 403
                   /\ Untouched

C11_Witness ==
    LET DirectGetAllowed ==
            CASE req.resource = "namespaces" -> DirectView(req.user, req.name)
              [] req.resource = "pods" ->
                    [rt |-> "pod", rid |-> <<req.name>>, rel |-> "creator",
                     st |-> "user", sid |-> req.user] \in rels
              [] OTHER -> FALSE
    IN
        /\ pc = "done"
        /\ req.verb = "get"
        /\ req.resource = "namespaces"
        /\ AllChecks(MatchingRules(rules, req)) # {}
        /\ Exists(kube, Obj(req))
        /\ ~DirectGetAllowed
        /\ resp.status = 403

C13_AuthenticationOrder ==
    LET HasBearer == http.authorization # <<>> /\ http.authorization[1] = "Bearer"
        HasCertificate == http.cert # <<>>
        Unauthenticated == ~huser.Authenticated /\ huser.Error # ""
        AuthenticationDone == hpc \notin {"idle", "auth"}
    IN
        AuthenticationDone =>
            /\ (HasBearer /\ http.authorization[2] = "good") =>
                   (huser.Authenticated /\ UsernameOf(huser) = SA1)
            /\ (HasBearer /\ http.authorization[2] # "good") => Unauthenticated
            /\ (~HasBearer /\ HasCertificate /\ http.cert[1].CommonName # <<>>) =>
                   (huser.Authenticated /\ UsernameOf(huser) = http.cert[1].CommonName)
            /\ (~HasBearer /\ HasCertificate /\ http.cert[1].CommonName = <<>>) =>
                   Unauthenticated
            /\ (~HasBearer /\ ~HasCertificate /\ http.remoteUser # <<>>) =>
                   (huser.Authenticated /\ UsernameOf(huser) = http.remoteUser)
            /\ (~HasBearer /\ ~HasCertificate /\ http.remoteUser = <<>>) =>
                   Unauthenticated

C13_Witness ==
    LET HasBearer == http.authorization # <<>> /\ http.authorization[1] = "Bearer"
        HasCertificate == http.cert # <<>>
        Unauthenticated == ~huser.Authenticated /\ huser.Error # ""
    IN
        /\ hpc = "replied"
        /\ HasBearer
        /\ http.authorization[2] = "bad"
        /\ HasCertificate
        /\ http.cert[1].CommonName = Bob
        /\ http.remoteUser = Alice
        /\ Unauthenticated
        /\ ~hresp.Success

\* C14: the handlers of create, list and grant-view run authentication, then
\* the RBAC check, then the proxy operation of the endpoint; a step runs only
\* after every earlier step returned success, the proxy is not entered before
\* the third step, and a request with a failed step is answered
\* success=false.
C14_HandlerOrder ==
    LET HandlerSteps ==
            <<"AuthenticateFromRequest", "CheckKubernetesPermission",
              CASE http.endpoint = "create" -> "CreateNamespaceAsUser"
                [] http.endpoint = "list" -> "ListNamespacesAsUser"
                [] OTHER -> "GrantViewPermission">>
    IN
        /\ Len(hcalls) <= 3
        /\ \A i \in 1..Len(hcalls) : hcalls[i].step = HandlerSteps[i]
        /\ \A i \in 1..Len(hcalls) : i < Len(hcalls) => hcalls[i].ok
        /\ (hpc # "idle" /\ Len(hcalls) < 3) => (pc = "idle" /\ kubeCalls = 0)
        /\ hpc = "replied" =>
               /\ (\E i \in 1..Len(hcalls) : ~hcalls[i].ok) => ~hresp.Success
               /\ hresp.Success => Len(hcalls) = 3

C14_Witness ==
    /\ hpc = "replied"
    /\ http.endpoint = "create"
    /\ http.namespace = "a"
    /\ Len(hcalls) = 2
    /\ hcalls[1].ok
    /\ ~hcalls[2].ok
    /\ pc = "idle"
    /\ kube = <<>>
    /\ ~hresp.Success

C17_NoOrphans ==
    LET ResourceExists(x) ==
            \E i \in 1..Len(kube) :
                /\ kube[i].resource = (IF x.rt = "pod" THEN "pods" ELSE "namespaces")
                /\ <<kube[i].name>> = x.rid
    IN
        pc = "idle" => \A x \in rels : ResourceExists(x)

(***************************************************************************)
(* The transaction state machine                                           *)
(***************************************************************************)
TxnTerminal == {"DONE", "PRECONDITION_FAILED", "COMPENSATED"}

\* a step of the transaction's state: one of the transitions, the start of a
\* transaction, or the end of the request that discards a finished one
TxnMove ==
    LET TxnTransitions ==
            {<<"PENDING", "PRECONDITIONS_CHECKED">>,
             <<"PRECONDITIONS_CHECKED", "BACKEND_APPLIED">>,
             <<"BACKEND_APPLIED", "GRAPH_COMMITTED">>,
             <<"GRAPH_COMMITTED", "DONE">>,
             <<"PRECONDITIONS_CHECKED", "PRECONDITION_FAILED">>,
             <<"BACKEND_APPLIED", "BACKEND_FAILED">>,
             <<"BACKEND_FAILED", "COMPENSATING">>,
             <<"COMPENSATING", "COMPENSATED">>}
    IN
        \/ <<txn, txn'>> \in TxnTransitions
        \/ txn = "NONE" /\ txn' = "PENDING"
        \/ txn \in TxnTerminal /\ txn' = "NONE" /\ pc = "done" /\ pc' = "idle"

\* C18: a mutating transaction moves only along PENDING ->
\* PRECONDITIONS_CHECKED -> BACKEND_APPLIED -> GRAPH_COMMITTED -> DONE,
\* PRECONDITIONS_CHECKED -> PRECONDITION_FAILED and BACKEND_APPLIED ->
\* BACKEND_FAILED -> COMPENSATING -> COMPENSATED; DONE, PRECONDITION_FAILED
\* and COMPENSATED are left only when the answered request ends; and, the
\* workflow steps being taken fairly, every started transaction reaches one
\* of the three.
C18_TransactionMachine ==
    /\ [][TxnMove]_txn
    /\ [](txn \in TxnTerminal => pc = "done")
    /\ (txn = "PENDING") ~> (txn \in TxnTerminal)

C18_Witness ==
    /\ pc = "done"
    /\ txn = "COMPENSATED"
    /\ kresp = 409
    /\ rollbackRun

\* the permission result of the watch event now being decided
EventResult == EventAllowed(rels, wUser, wRaw[wCursor + 1])

\* the filterer has taken its decision on the next event of the stream
EventDecided == wOpen /\ wChecking /\ wCursor' = wCursor + 1

\* C19: on a watch stream an event whose permission check is denied is not
\* forwarded and does not end the stream, an event whose check is allowed is
\* forwarded, and the stream stays open after every decision, so that
\* allowed events after denied ones are still delivered.
C19_WatchDeniedSkipped ==
    [][/\ EventDecided =>
              /\ wOpen'
              /\ wRaw' = wRaw
              /\ wFwd' = IF EventResult THEN Append(wFwd, wCursor + 1) ELSE wFwd
       /\ (wOpen /\ wCursor' = wCursor) => wFwd' = wFwd]_watchVars

C19_Witness ==
    /\ wOpen
    /\ Len(wRaw) = 2
    /\ wCursor = 2
    /\ ~EventAllowed(rels, wUser, wRaw[1])
    /\ EventAllowed(rels, wUser, wRaw[2])
    /\ wFwd = <<2>>

\* C20 as stated: with an empty Lookup result the answer is empty and the
\* backend is not called for the request.
C20_EmptyLookupSkipsBackend ==
    LET EmptyLookup ==
            /\ pc \in {"read", "postfilter", "done"}
            /\ req.verb \in {"list", "watch"}
            /\ filtered
            /\ allowed = {}
    IN
        EmptyLookup =>
            /\ kubeCalls = 0
            /\ pc = "done" => resp.items = <<>>

\* C20: for a list or watch matched by a pre-filter rule whose Lookup result
\* is empty, the request is still forwarded to the backend, once and with the
\* empty filter, and the answer is empty: an empty list, or a stream that
\* starts with no event, never the unfiltered list.
C20_EmptyLookupEmptyResult ==
    LET EmptyLookup ==
            /\ pc \in {"read", "postfilter", "done"}
            /\ req.verb \in {"list", "watch"}
            /\ filtered
            /\ allowed = {}
    IN
        /\ (EmptyLookup /\ pc = "done") =>
               /\ resp.status = 200
               /\ resp.items = <<>>
               /\ kubeCalls = 1
               /\ kube = kubeBefore
        /\ (EmptyLookup /\ pc = "read") => kubeCalls = 0
        /\ \A r \in {"namespaces", "pods"} :
               Select(kube, [NamespaceList EXCEPT !.resource = r], TRUE, {}) = <<>>

C20_Witness ==
    LET EmptyLookup ==
            /\ pc \in {"read", "postfilter", "done"}
            /\ req.verb \in {"list", "watch"}
            /\ filtered
            /\ allowed = {}
    IN
        /\ EmptyLookup
        /\ pc = "done"
        /\ req.verb = "list"
        /\ Len(BackendNamespaces) = 2
        /\ kubeCalls = 1
        /\ resp.items = <<>>

(***************************************************************************)
(* Several rules for one request                                           *)
(***************************************************************************)
\* C21: when several rules match a request, the request reaches the backend
\* only if the checks of every matched rule are allowed, a request with a
\* denied check of any matched rule is answered 403 without a backend call,
\* and a successful create has written the update templates of every matched
\* rule.
C21_AllMatchedRulesApply ==
    LET SomeCheckDenied ==
            \E x \in rules : /\ Covers(x, req)
                             /\ \E t \in Range(x.Checks) :
                                    ~CheckPermission(rels, Render(t, req))
    IN
        /\ (Decided /\ req.verb = "get" /\ kubeCalls > 0) => ~SomeCheckDenied
        /\ (pc = "done" /\ req.verb = "get" /\ SomeCheckDenied /\ ~graphErr) =>
               (resp.status = 403 /\ Untouched)
        /\ (pc = "done" /\ req.verb = "create" /\ resp.status = 201) =>
               \A x \in rules :
                   Covers(x, req) =>
                       \A t \in Range(x.CreateRelationships) : Render(t, req) \in rels

C21_Witness ==
    /\ pc = "done"
    /\ req.verb = "get"
    /\ req.user = Bob
    /\ Cardinality({x \in rules : Covers(x, req)}) = 2
    /\ CheckPermission(rels, Render(NsGetRule.Checks[1], req))
    /\ ~CheckPermission(rels, Render(NsAdminGetRule.Checks[1], req))
    /\ resp.status = 403

(***************************************************************************)
(* Conditions                                                              *)
(***************************************************************************)
\* C22: every condition of a loaded table is well formed and has a value,
\* true or false, for the request in flight; a rule with a condition that
\* reads a field absent from the request does not apply, so that a request
\* only such rules cover is denied as unmatched; and a proxy whose
\* configuration has a malformed condition handles no request at all.
C22_ConditionsTotal ==
    LET SameVerb(r) ==
            {x \in rules : /\ x.GroupVersion = r.gv
                           /\ x.Resource = r.resource
                           /\ r.verb \in x.Verbs}
    IN
        /\ rules = MatcherError =>
               (pc = "idle" /\ kube = <<>> /\ rels = {} /\ resp = NoResp)
        /\ rules # MatcherError =>
               \A x \in rules : \A i \in 1..Len(IfOf(x)) :
                   /\ WellFormed(IfOf(x)[i])
                   /\ ConditionHolds(IfOf(x)[i], req) \in BOOLEAN
                   /\ RefersAbsent(IfOf(x)[i], req) =>
                          /\ ~ConditionHolds(IfOf(x)[i], req)
                          /\ x \notin MatchingRules(rules, req)
        /\ (/\ rules # MatcherError
            /\ Decided
            /\ \A x \in SameVerb(req) :
                   \E i \in 1..Len(IfOf(x)) : RefersAbsent(IfOf(x)[i], req)) =>
               (pc = "done" /\ resp.status = 403 /\ Untouched)

C22_Witness ==
    LET SameVerb(r) ==
            {x \in rules : /\ x.GroupVersion = r.gv
                           /\ x.Resource = r.resource
                           /\ r.verb \in x.Verbs}
    IN
        /\ rules = condRules
        /\ pc = "done"
        /\ req.verb = "delete"
        /\ Exists(kube, Obj(req))
        /\ SameVerb(req) # {}
        /\ \A x \in SameVerb(req) : RefersAbsent(IfOf(x)[1], req)
        /\ resp.status = 403

(***************************************************************************)
(* Reload of the rule table                                                *)
(***************************************************************************)
\* C23: whatever the interleaving of a reload with the request in flight,
\* the active table is always one of the complete tables, and the request is
\* evaluated, from its checks to its relationship update, against what one
\* complete table, the old or the new one, says for it.
C23_WholeTablePerRequest ==
    LET EvaluatedAgainst(m) ==
            /\ matched = m
            /\ m = {} => (pc = "done" /\ resp.status = 403 /\ Untouched)
            /\ (req.verb = "get" /\ kubeCalls > 0) =>
                   \A t \in AllChecks(m) : CheckPermission(rels, Render(t, req))
            /\ (pc = "done" /\ txn = "DONE") =>
                   rels = ApplyUpdate(relsBefore, RenderAll(AllCreates(m), req),
                                      RenderAll(AllDeletes(m), req))
    IN
        /\ rules \in ReloadTables
        /\ Decided => \E t \in ReloadTables : EvaluatedAgainst(MatchingRules(t, req))

C23_Witness ==
    /\ pc = "done"
    /\ req.verb = "create"
    /\ resp.status = 201
    /\ rules = deployRules
    /\ matched = MatchingRules(overlapRules, req)
    /\ Render(NsShareRule.CreateRelationships[1], req) \in rels \ relsBefore

(***************************************************************************)
(* The client of a watch goes away                                         *)
(***************************************************************************)
\* a step taken while no watch is open and none is opened
AfterTermination ==
    (~wOpen /\ ~wOpen') => (wFwd' = wFwd /\ wRaw' = wRaw /\ ~wChecking')

\* C24: when the client of a watch disconnects or its context is canceled,
\* the filterer eventually stops; once it has stopped no event is forwarded
\* and the backend sends none on the subscription, and no permission check
\* of the watch is left in flight.
C24_WatchCancelled ==
    /\ [][AfterTermination]_vars
    /\ [](~wOpen => ~wChecking)
    /\ (wOpen /\ wGone) ~> ~wOpen

C24_Witness ==
    /\ ~wOpen
    /\ wGone
    /\ wFwd = <<1>>
    /\ Len(wRaw) = 2
    /\ wCursor = 1
    /\ Len(kube) = 2
    /\ pc = "done"
    /\ req.verb = "create"
    /\ resp.status = 201

(***************************************************************************)
(* Template rendering                                                      *)
(***************************************************************************)
\* C25: for each relationship template of the rule table, the placeholder
\* values read back from the rendered text are those of the context, and
\* a context that renders to the same text has the same value for every
\* placeholder of the template.
C25_RenderInjective ==
    LET BoundFields(t, ctx) == [ph \in {t.id, t.sid} |-> FieldText(ctx, ph)]
        ExtractFields(t, text) ==
            [ph \in {t.id, t.sid} |->
                IF ph = t.id THEN ParseTuple(text).rid ELSE ParseTuple(text).sid]
        Rendered == fnArg.fn = "render" /\ fnOut # NoOut
    IN
        Rendered =>
            /\ ExtractFields(fnArg.tpl, fnOut) = BoundFields(fnArg.tpl, fnArg.ctx)
            /\ \A c \in RenderContexts :
                   RenderText(fnArg.tpl, c) = fnOut =>
                       BoundFields(fnArg.tpl, c) = BoundFields(fnArg.tpl, fnArg.ctx)

C25_Witness ==
    LET Rendered == fnArg.fn = "render" /\ fnOut # NoOut
    IN
        /\ Rendered
        /\ fnArg.tpl = PodCreateRule.CreateRelationships[1]
        /\ fnArg.ctx.name = "web-1"
        /\ fnArg.ctx.user = <<"#", ":">>
        /\ fnOut = <<"pod", ":", "web-1", "#", "creator", "@", "user", ":", "#", ":">>


(***************************************************************************)
(* Granting view                                                           *)
(***************************************************************************)
\* C26: a viewer relationship on a namespace is written by the grant-view
\* handler only for a requester who has the admin permission on that
\* namespace in the graph.
C26_GrantOnlyByAdmin ==
    LET GrantWritten ==
            /\ hpc = "replied"
            /\ http.endpoint = "grant-view"
            /\ hresp.Success
    IN
        GrantWritten =>
            CheckPermission(rels, [rt |-> "namespace", rid |-> <<http.namespace>>,
                                   rel |-> "admin", st |-> "user",
                                   sid |-> sanitizeUserName(UsernameOf(huser))])


(***************************************************************************)
(* Pods                                                                    *)
(***************************************************************************)
\* C27: the proxy lets a user get or delete a pod, identified by namespace
\* and name, only if that user created that very pod; stated for graphs in
\* which no relationship of a deleted pod is left.
C27_PodEditOnlyForCreator ==
    LET NoPodOrphans ==
            \A x \in rels :
                (x.rt = "pod" /\ x.rel = "creator") =>
                    \E c \in created : /\ c.obj.resource = "pods"
                                       /\ <<c.obj.name>> = x.rid
                                       /\ c.by = x.sid
        PodAccessGranted ==
            /\ req.resource = "pods"
            /\ req.verb \in {"get", "delete"}
            /\ pc \in {"read", "workflow"}
            /\ Exists(kube, Obj(req))
    IN
        (PodAccessGranted /\ NoPodOrphans) =>
            [obj |-> Obj(req), by |-> caller] \in created


(***************************************************************************)
(* sanitizeUserName                                                        *)
(***************************************************************************)
\* C28: two different user names never get the same subject id from
\* sanitizeUserName.
C28_SanitizeInjective ==
    LET Sanitized == fnArg.fn = "sanitizeUserName" /\ fnOut # NoOut
    IN
        Sanitized =>
            \A other \in SanitizeNames :
                sanitizeUserName(other) = fnOut => other = fnArg.userName


\* C30: sanitizeUserName returns a valid SpiceDB object id; for
\* system:serviceaccount:<namespace>:<name> it returns <name>.
C30_SanitizeValid ==
    LET Sanitized == fnArg.fn = "sanitizeUserName" /\ fnOut # NoOut
        ValidObjectId(id) == Len(id) = 1 /\ id[1] \in IdWords
        ServiceAccountName(userName) ==
            /\ Len(userName) = 4
            /\ userName[1] = "system"
            /\ userName[2] = "serviceaccount"
    IN
        Sanitized =>
            /\ ValidObjectId(fnOut)
            /\ ServiceAccountName(fnArg.userName) => fnOut = <<fnArg.userName[4]>>


(***************************************************************************)
(* AuthMiddleware                                                          *)
(***************************************************************************)
\* C29: every authentication result has Authenticated exactly when its User
\* is set and its Error is not; the middleware invokes the wrapped handler
\* only for an authenticated request, once, with that user in the context,
\* and answers every other request 401 without invoking the handler.
C29_MiddlewareGuards ==
    LET MiddlewareDone == fnArg.fn = "AuthMiddleware" /\ fnOut # NoOut
    IN
        /\ huser.Authenticated <=> (huser.User # <<>> /\ huser.Error = "")
        /\ MiddlewareDone =>
               IF AuthenticateRequest(fnArg.r).Authenticated
               THEN /\ Len(fnOut[1].next) = 1
                    /\ GetUserFromContext(fnOut[1].next[1]).ok
                    /\ GetUserFromContext(fnOut[1].next[1]).user # <<>>
                    /\ GetUserFromContext(fnOut[1].next[1]).user
                           = AuthenticateRequest(fnArg.r).User
               ELSE /\ fnOut[1].status = 401
                    /\ fnOut[1].next = <<>>

\* a request with a Basic Authorization header, no certificate and the
\* X-Remote-User header reaches the handler as that user
C29_Witness ==
    LET MiddlewareDone == fnArg.fn = "AuthMiddleware" /\ fnOut # NoOut
    IN
        /\ MiddlewareDone
        /\ fnArg.r.authorization = <<"Basic", "x">>
        /\ fnArg.r.cert = <<>>
        /\ fnArg.r.remoteUser = Bob
        /\ huser.Authenticated
        /\ fnOut = Served(200, <<WithUser(UserInfo(Bob, Bob))>>)
====
